---- MODULE Spec2Model ----
(***************************************************************************)
(* A model of streamlit_app.py: the RealEstateScraper (field extraction    *)
(* by ordered regular expressions, the criteria filter, the synthetic      *)
(* generator, scrape_immobilienscout24 with its URL patterns and status    *)
(* branching) and the search loop of main(), with the deduplication of     *)
(* the accumulated results.                                                *)
(*                                                                         *)
(* Text is a sequence of tokens: one token per digit and punctuation mark, *)
(* one token per keyword the patterns look for.  Non-ASCII is spelled out: *)
(* "euro" is the euro sign, "m2" is m-squared, "Wohnflaeche" has its       *)
(* umlaut written ae, "Muenchen" likewise.  rooms is a float in the        *)
(* program; here every float is held in thousandths (Milli).               *)
(***************************************************************************)
EXTENDS Integers, Sequences, FiniteSets, TLC

\* ---------------------------------------------------------------- bounds
MaxTextLen == 4      \* longest generated text, in tokens
MaxRows == 3         \* longest list handed to drop_duplicates on its own
MaxFragments == 2    \* most text fragments joined into one listing text
MaxListings == 2     \* most listing nodes on one result page
MaxMockCount == 3    \* cap on random.randint(3, 8), the generator's count

\* ------------------------------------------------------- program constants
MAX_PRICE == 750000
MIN_ROOMS == 3
MIN_AREA == 80
CITIES == <<"Muenchen", "Augsburg">>
SOURCES == <<"ImmoScout24", "Immonet", "eBay Kleinanzeigen">>
MOCK_SOURCE == "Mock Data (for testing)"
ListingLimit == 5    \* listings[:5]
MockMinCount == 3    \* random.randint(3, 8)
Milli == 10 * 10 * 10

Min(a, b) == IF a < b THEN a ELSE b
Range(s) == {s[i] : i \in 1..Len(s)}

\* ------------------------------------------------------------ characters
DigitChars == <<"0", "1", "2", "3", "4", "5", "6", "7", "8", "9">>
Digits == Range(DigitChars)
DigitVal(c) == (CHOOSE k \in 1..10 : DigitChars[k] = c) - 1
\* \w at the start of a token (what \b after "Z" looks at)
WordStart == Digits \cup {"Zimmer", "Zi.", "Z", "EUR", "Kaufpreis", "qm", "m2",
                          "Wohnflaeche", "Quadratmeter", "x"}

IsDigitAt(t, i) == i >= 1 /\ i <= Len(t) /\ t[i] \in Digits

\* index just past the longest run of tokens of S that starts at i (a greedy star)
RECURSIVE RunEnd(_, _, _)
RunEnd(t, i, S) ==
    IF i <= Len(t) /\ t[i] \in S THEN RunEnd(t, i + 1, S) ELSE i

\* (?:\.\d{3})* from i, greedy: index just past the last group
RECURSIVE ThousandsEnd(_, _)
ThousandsEnd(t, i) ==
    IF i <= Len(t) /\ t[i] = "." /\ IsDigitAt(t, i + 1) /\ IsDigitAt(t, i + 2)
       /\ IsDigitAt(t, i + 3)
    THEN ThousandsEnd(t, i + 4)
    ELSE i

\* The three number shapes of the patterns, matched greedily from i; the
\* result is the index just past the number, or i when no number starts at i.
\*   "grouped_dec"  \d{1,3}(?:\.\d{3})*(?:,\d{2})?
\*   "grouped"      \d{1,3}(?:\.\d{3})*
\*   "plain"        \d+(?:,\d+)?
\* Giving back part of a greedy match never helps these patterns: what
\* follows a shortened number is a digit, "." or ",", and the continuation
\* (\s* and a keyword) accepts none of them.
NumberEnd(t, i, shape) ==
    IF ~IsDigitAt(t, i) THEN i
    ELSE IF shape = "plain"
    THEN LET e == RunEnd(t, i, Digits) IN
         IF e <= Len(t) /\ t[e] = "," /\ IsDigitAt(t, e + 1)
         THEN RunEnd(t, e + 1, Digits) ELSE e
    ELSE LET e == ThousandsEnd(t, Min(RunEnd(t, i, Digits), i + 3)) IN
         IF shape = "grouped_dec" /\ e <= Len(t) /\ t[e] = ","
            /\ IsDigitAt(t, e + 1) /\ IsDigitAt(t, e + 2)
         THEN e + 3 ELSE e

\* A pattern is either  (number)\s*keyword[\b]   (form "suffix")
\*               or     keyword[seps]*(number)   (form "prefix").
\* MatchAt gives the captured group of a match that starts at s, <<>> if none.
MatchAt(p, t, s) ==
    IF p.form = "suffix"
    THEN LET e == NumberEnd(t, s, p.num)
             k == RunEnd(t, e, {" "})
         IN IF e > s /\ k <= Len(t) /\ t[k] = p.kw
               /\ (p.wb => (k = Len(t) \/ t[k + 1] \notin WordStart))
            THEN SubSeq(t, s, e - 1) ELSE <<>>
    ELSE IF s <= Len(t) /\ t[s] = p.kw
         THEN LET b == RunEnd(t, s + 1, p.seps)
                  e == NumberEnd(t, b, p.num)
              IN SubSeq(t, b, e - 1)
         ELSE <<>>

\* re.search: the match at the leftmost start; <<>> when nothing matches
RECURSIVE SearchFrom(_, _, _)
SearchFrom(p, t, s) ==
    IF s > Len(t) THEN <<>>
    ELSE IF MatchAt(p, t, s) # <<>> THEN MatchAt(p, t, s)
    ELSE SearchFrom(p, t, s + 1)

re_search(p, t) == SearchFrom(p, t, 1)

price_patterns == <<
    [form |-> "suffix", num |-> "grouped_dec", kw |-> "euro", seps |-> {" "}, wb |-> FALSE],
    [form |-> "prefix", num |-> "grouped_dec", kw |-> "euro", seps |-> {" "}, wb |-> FALSE],
    [form |-> "suffix", num |-> "grouped", kw |-> "EUR", seps |-> {" "}, wb |-> FALSE],
    [form |-> "prefix", num |-> "grouped", kw |-> "Kaufpreis", seps |-> {":", " "}, wb |-> FALSE] >>

room_patterns == <<
    [form |-> "suffix", num |-> "plain", kw |-> "Zimmer", seps |-> {" "}, wb |-> FALSE],
    [form |-> "suffix", num |-> "plain", kw |-> "Zi.", seps |-> {" "}, wb |-> FALSE],
    [form |-> "suffix", num |-> "plain", kw |-> "Z", seps |-> {" "}, wb |-> TRUE],
    [form |-> "prefix", num |-> "plain", kw |-> "Zimmer", seps |-> {":", " "}, wb |-> FALSE] >>

area_patterns == <<
    [form |-> "suffix", num |-> "plain", kw |-> "m2", seps |-> {" "}, wb |-> FALSE],
    [form |-> "suffix", num |-> "plain", kw |-> "qm", seps |-> {" "}, wb |-> FALSE],
    [form |-> "prefix", num |-> "plain", kw |-> "Wohnflaeche", seps |-> {":", " "}, wb |-> FALSE],
    [form |-> "suffix", num |-> "plain", kw |-> "Quadratmeter", seps |-> {" "}, wb |-> FALSE] >>

Fields == {"price", "rooms", "area"}
PatternsOf(field) ==
    CASE field = "price" -> price_patterns
      [] field = "rooms" -> room_patterns
      [] field = "area" -> area_patterns

\* ----------------------------------------------------------- conversions
\* the value of the digits of g up to (not including) the first ","
RECURSIVE WholePart(_, _, _)
WholePart(g, i, acc) ==
    IF i > Len(g) \/ g[i] = "," THEN acc
    ELSE IF g[i] = "." THEN WholePart(g, i + 1, acc)
    ELSE WholePart(g, i + 1, acc * 10 + DigitVal(g[i]))

CommaAt(g) == IF \E i \in 1..Len(g) : g[i] = ","
              THEN CHOOSE i \in 1..Len(g) : g[i] = "," ELSE Len(g) + 1

\* the digits after the "," as thousandths (digits beyond the third dropped)
Thousandths(g) ==
    LET c == CommaAt(g)
        d(k) == IF c + k <= Len(g) THEN DigitVal(g[c + k]) ELSE 0
    IN d(1) * 100 + d(2) * 10 + d(3)

\* match.group(1).replace('.', '').replace(',', '.') for the price,
\* match.group(1).replace(',', '.') for rooms and area
RECURSIVE Replaced(_, _)
Replaced(field, g) ==
    IF g = <<>> THEN <<>>
    ELSE IF g[1] = "." /\ field = "price" THEN Replaced(field, Tail(g))
    ELSE <<IF g[1] = "," THEN "." ELSE g[1]>> \o Replaced(field, Tail(g))

\* whether float(...) accepts the string: digits around at most one point
Converts(field, g) ==
    LET str == Replaced(field, g) IN
    /\ \E i \in 1..Len(str) : str[i] \in Digits
    /\ \A i \in 1..Len(str) : str[i] \in Digits \cup {"."}
    /\ Cardinality({i \in 1..Len(str) : str[i] = "."}) <= 1

\* int(float(price_str)), float(group) in thousandths, int(float(group))
Convert(field, g) ==
    CASE field = "price" -> WholePart(g, 1, 0)
      [] field = "rooms" -> WholePart(g, 1, 0) * Milli + Thousandths(g)
      [] field = "area" -> WholePart(g, 1, 0)

\* a faulty variant: no break, every pattern is tried and the last match stands
RECURSIVE ExtractFieldNoBreak(_, _, _)
ExtractFieldNoBreak(field, all_text, i) ==
    IF i > Len(PatternsOf(field)) THEN 0
    ELSE LET g == re_search(PatternsOf(field)[i], all_text)
             later == ExtractFieldNoBreak(field, all_text, i + 1)
             laterHit == \E j \in (i + 1)..Len(PatternsOf(field)) :
                            re_search(PatternsOf(field)[j], all_text) # <<>>
         IN IF g # <<>> /\ Converts(field, g) /\ ~laterHit THEN Convert(field, g)
            ELSE later

\* for pattern in patterns: match = re.search(...); if match: try: field =
\* convert; break / except: continue.  The field starts at 0.
RECURSIVE ExtractField(_, _, _)
ExtractField(field, all_text, i) ==
    IF i > Len(PatternsOf(field)) THEN 0
    ELSE LET g == re_search(PatternsOf(field)[i], all_text)
         IN IF g # <<>> /\ Converts(field, g) THEN Convert(field, g)
            ELSE ExtractField(field, all_text, i + 1)

\* A listing node: its title element's text, the tokens of get_text(), and
\* whether reading the node raises.  The result is <<>> for None, else a
\* one-element sequence holding the apartment.  A title is a tuple of its
\* parts (the generator's titles are f"{base} - {city}").
parse_immoscout_listing_enhanced(listing, city) ==
    IF listing.broken THEN <<>>
    ELSE << [title |-> <<listing.title>>,
             price |-> ExtractField("price", listing.text, 1),
             rooms |-> ExtractField("rooms", listing.text, 1),
             area |-> ExtractField("area", listing.text, 1),
             city |-> city,
             source |-> "ImmoScout24"] >>

\* ------------------------------------------------------- criteria filter
\* faulty variants: the price bound made strict; the positivity test dropped
meets_criteria_strict(apartment) ==
    /\ apartment.price < MAX_PRICE
    /\ apartment.rooms >= MIN_ROOMS * Milli
    /\ apartment.area >= MIN_AREA
    /\ apartment.price > 0

meets_criteria_no_positive(apartment) ==
    /\ apartment.price <= MAX_PRICE
    /\ apartment.rooms >= MIN_ROOMS * Milli
    /\ apartment.area >= MIN_AREA

meets_criteria(apartment) ==
    /\ apartment.price <= MAX_PRICE
    /\ apartment.rooms >= MIN_ROOMS * Milli
    /\ apartment.area >= MIN_AREA
    /\ apartment.price > 0

\* ---------------------------------------------------------- deduplication
SameKey(a, b) == a.title = b.title /\ a.price = b.price

\* a faulty variant: keep='last'
RECURSIVE drop_duplicates_last(_)
drop_duplicates_last(rows) ==
    IF rows = <<>> THEN <<>>
    ELSE IF \E j \in 2..Len(rows) : SameKey(rows[j], rows[1])
         THEN drop_duplicates_last(Tail(rows))
         ELSE <<rows[1]>> \o drop_duplicates_last(Tail(rows))

\* df.drop_duplicates(subset=['title', 'price'], keep='first'): rows are
\* visited in order, a row is dropped when its key was seen before
RECURSIVE DropFrom(_, _, _)
DropFrom(rows, i, kept) ==
    IF i > Len(rows) THEN kept
    ELSE IF \E k \in 1..Len(kept) : SameKey(kept[k], rows[i])
         THEN DropFrom(rows, i + 1, kept)
         ELSE DropFrom(rows, i + 1, Append(kept, rows[i]))

drop_duplicates(rows) == DropFrom(rows, 1, <<>>)

\* ----------------------------------------------------- synthetic generator
\* One value is drawn per field: the end of its range that lies on the
\* filter's threshold (the other ends are among CriteriaProbes below).
MockTitles == {"Schoene 3-Zimmer-Wohnung mit Balkon"}
MockPrices == {MAX_PRICE}          \* random.randint(400000, 750000)
MockRooms == {3 * Milli}           \* random.choice([3, 3.5, 4, 4.5, 5])
MockAreas == {80}                  \* random.randint(80, 140)

MockApartments(city) ==
    {[title |-> <<t, city>>, price |-> p, rooms |-> r, area |-> a,
      city |-> city, source |-> MOCK_SOURCE] :
        t \in MockTitles, p \in MockPrices, r \in MockRooms, a \in MockAreas}

\* every list scrape_mock_data(city) can return: n draws, each kept when it
\* meets the criteria
scrape_mock_data(city) ==
    {SelectSeq(draws, meets_criteria) :
        draws \in UNION {[1..n -> MockApartments(city)] :
                            n \in MockMinCount..MaxMockCount}}

\* ------------------------------------------------------------------- state
VARIABLES
    selected_cities, selected_sources,   \* the sidebar's multiselects
    max_price, min_rooms, min_area,      \* the sidebar's sliders
    test_mode,                           \* the sidebar's checkbox
    pc,                                  \* where the script is
    scraper,                             \* whether RealEstateScraper() was built
    all_apartments, completed_tasks,     \* main's accumulators
    city_i, source_i,                    \* main's two loop positions
    task_errors,                         \* st.error calls of main's except
    df,                                  \* the table shown
    apartments,                          \* the list a scraper call builds
    url_i, response, listing_i,          \* scrape_immobilienscout24's locals
    requested,                           \* URL patterns requested by this task
    url_failures,                        \* URL patterns that yielded nothing
    mock_calls,                          \* scrape_mock_data calls
    last_net,                            \* "none", "request" or "sleep"
    probe, answer                        \* a function called on its own

inputVars == <<selected_cities, selected_sources, max_price, min_rooms,
               min_area, test_mode>>
mainVars == <<pc, scraper, all_apartments, completed_tasks, city_i, source_i,
              task_errors, df>>
immoVars == <<url_i, response, listing_i, url_failures>>
netVars == <<requested, last_net>>
pureVars == <<probe, answer>>
vars == <<inputVars, mainVars, apartments, immoVars, netVars, mock_calls,
          pureVars>>

\* ------------------------------------------------------------ input domains
\* what st.sidebar.multiselect can hold: the options chosen, none twice,
\* here in the order the options are listed
Selections(opts) ==
    {q \in UNION {[1..n -> Range(opts)] : n \in 0..Len(opts)} :
        \A i, j \in 1..Len(q) : i < j =>
            \E a, b \in 1..Len(opts) : a < b /\ opts[a] = q[i] /\ opts[b] = q[j]}

\* the three sliders: their defaults, their strictest and their loosest ends
SliderSettings ==
    {[max_price |-> MAX_PRICE, min_rooms |-> MIN_ROOMS, min_area |-> MIN_AREA],
     [max_price |-> 500000, min_rooms |-> 6, min_area |-> 150],
     [max_price |-> 1000000, min_rooms |-> 1, min_area |-> 50]}

\* listing nodes a result page can hold
ListingGood ==
    [title |-> "Wohnung A", broken |-> FALSE,
     text |-> <<"7", "5", "0", ".", "0", "0", "0", " ", "euro", " ",
                "3", " ", "Zimmer", " ", "8", "0", " ", "m2">>]
ListingNoPrice ==
    [title |-> "Wohnung B", broken |-> FALSE,
     text |-> <<"x", " ", "4", ",", "5", " ", "Zi.", " ", "9", "5", " ", "qm">>]
ListingDear ==
    [title |-> "Wohnung C", broken |-> FALSE,
     text |-> <<"Kaufpreis", ":", " ", "7", "5", "0", ".", "0", "0", "1", " ",
                "Zimmer", ":", " ", "3", " ", "Wohnflaeche", ":", " ", "8", "0">>]
ListingBroken ==
    [title |-> "N/A", broken |-> TRUE, text |-> <<>>]
SampleListings == {ListingGood, ListingNoPrice, ListingDear, ListingBroken}

\* parse_immoscout_listing_enhanced over the nodes above, tabulated
Parsed == [l \in SampleListings |->
             [c \in Range(CITIES) |-> parse_immoscout_listing_enhanced(l, c)]]

\* a page with more nodes than listings[:5] looks at
LongPage ==
    [i \in 1..(ListingLimit + 1) |-> IF i = 1 THEN ListingBroken ELSE ListingGood]

Pages == UNION {[1..n -> SampleListings] : n \in 0..MaxListings} \cup {LongPage}
Statuses == {200, 401, 403, 429, 500}
url_patterns == <<"bayern/location/wohnung-kaufen", "location/wohnung-kaufen",
                  "wohnung-kaufen">>
NoResponse == [status |-> 0, listings |-> <<>>]
\* what the body of a response with another status than 200 may hold: the
\* code never looks at it
ErrorBodies == {<<>>, <<ListingGood>>}

\* --------------------------------------------------------------------- Init
PureIdle == probe = <<>> /\ answer = [called |-> FALSE, value |-> <<>>]

MainIdle ==
    /\ pc = "sidebar" /\ scraper = FALSE
    /\ all_apartments = <<>> /\ completed_tasks = 0
    /\ city_i = 1 /\ source_i = 1 /\ task_errors = 0 /\ df = <<>>
    /\ apartments = <<>>
    /\ url_i = 1 /\ response = NoResponse /\ listing_i = 1
    /\ requested = <<>> /\ url_failures = 0
    /\ mock_calls = 0 /\ last_net = "none"

Init ==
    /\ selected_cities \in Selections(CITIES)
    /\ selected_sources \in Selections(SOURCES)
    /\ \E s \in SliderSettings :
          max_price = s.max_price /\ min_rooms = s.min_rooms /\ min_area = s.min_area
    /\ test_mode \in BOOLEAN
    /\ MainIdle
    /\ PureIdle

\* ------------------------------------------------------------------- main()
city == selected_cities[city_i]
source == selected_sources[source_i]
total_tasks == Len(selected_cities) * Len(selected_sources)

\* a faulty variant: the search is set up without the two selection checks
ClickSearchUnchecked ==
    /\ pc = "sidebar"
    /\ pc' = "task" /\ scraper' = TRUE
    /\ all_apartments' = <<>> /\ completed_tasks' = 0
    /\ UNCHANGED <<inputVars, city_i, source_i, task_errors, df, apartments,
                   immoVars, netVars, mock_calls, pureVars>>

\* if st.sidebar.button(...): the two selection checks, then the set-up
ClickSearch ==
    /\ pc = "sidebar"
    /\ IF selected_cities = <<>> \/ selected_sources = <<>>
       THEN /\ pc' = "rejected"
            /\ UNCHANGED <<scraper, all_apartments, completed_tasks>>
       ELSE /\ pc' = "task" /\ scraper' = TRUE
            /\ all_apartments' = <<>> /\ completed_tasks' = 0
    /\ UNCHANGED <<inputVars, city_i, source_i, task_errors, df, apartments,
                   immoVars, netVars, mock_calls, pureVars>>

\* the two for loops: the next (city, source) pair, or past the last one
NextTask ==
    IF source_i < Len(selected_sources)
    THEN city_i' = city_i /\ source_i' = source_i + 1
    ELSE city_i' = city_i + 1 /\ source_i' = 1

\* for city ... for source ...: no pair left
LoopDone ==
    /\ pc = "task" /\ city_i > Len(selected_cities)
    /\ pc' = "completed"
    /\ UNCHANGED <<inputVars, scraper, all_apartments, completed_tasks, city_i,
                   source_i, task_errors, df, apartments, immoVars, netVars,
                   mock_calls, pureVars>>

\* a faulty variant: the test-mode toggle is not looked at
UsesMockBySource == source \in {"Immonet", "eBay Kleinanzeigen"}

UsesMock == test_mode \/ source \in {"Immonet", "eBay Kleinanzeigen"}

\* scrape_mock_data(city), directly in test mode or through scrape_immonet /
\* scrape_ebay_kleinanzeigen, whose try block returns it at once
TaskMock ==
    /\ pc = "task" /\ city_i <= Len(selected_cities) /\ UsesMock
    /\ \E result \in scrape_mock_data(city) : apartments' = result
    /\ mock_calls' = mock_calls + 1
    /\ requested' = <<>>
    /\ pc' = "extend"
    /\ UNCHANGED <<inputVars, scraper, all_apartments, completed_tasks, city_i,
                   source_i, task_errors, df, immoVars, last_net,
                   pureVars>>

\* a faulty variant: the exception ends the search
TaskRaisesStops ==
    /\ pc = "task" /\ city_i <= Len(selected_cities) /\ UsesMock
    /\ mock_calls' = mock_calls + (IF test_mode THEN 1 ELSE 2)
    /\ task_errors' = task_errors + 1
    /\ pc' = "completed"
    /\ requested' = <<>>
    /\ UNCHANGED <<inputVars, scraper, all_apartments, completed_tasks, city_i,
                   source_i, df, apartments, immoVars, last_net, pureVars>>

\* a faulty variant: a task that raised is not counted
TaskRaisesUncounted ==
    /\ pc = "task" /\ city_i <= Len(selected_cities) /\ UsesMock
    /\ mock_calls' = mock_calls + (IF test_mode THEN 1 ELSE 2)
    /\ task_errors' = task_errors + 1
    /\ NextTask
    /\ requested' = <<>>
    /\ UNCHANGED <<inputVars, pc, scraper, all_apartments, completed_tasks, df,
                   apartments, immoVars, last_net, pureVars>>

\* scrape_mock_data(city) raises, a call with no catch-all of its own: in
\* test mode it was called once; scrape_immonet and scrape_ebay_kleinanzeigen
\* call it in their try and once more in their except.  main's except reports
\* the exception, then completed_tasks += 1 and the loops go on
TaskRaises ==
    /\ pc = "task" /\ city_i <= Len(selected_cities) /\ UsesMock
    /\ mock_calls' = mock_calls + (IF test_mode THEN 1 ELSE 2)
    /\ task_errors' = task_errors + 1
    /\ completed_tasks' = completed_tasks + 1
    /\ NextTask
    /\ requested' = <<>>
    /\ UNCHANGED <<inputVars, pc, scraper, all_apartments, df, apartments,
                   immoVars, last_net, pureVars>>

\* all_apartments.extend(apartments); completed_tasks += 1
TaskExtend ==
    /\ pc = "extend"
    /\ all_apartments' = all_apartments \o apartments
    /\ completed_tasks' = completed_tasks + 1
    /\ NextTask
    /\ pc' = "task"
    /\ UNCHANGED <<inputVars, scraper, task_errors, df, apartments, immoVars,
                   netVars, mock_calls, pureVars>>

\* if all_apartments: drop_duplicates and the results view; else the warning
ShowResults ==
    /\ pc = "completed"
    /\ IF all_apartments # <<>>
       THEN df' = drop_duplicates(all_apartments) /\ pc' = "shown"
       ELSE df' = <<>> /\ pc' = "empty"
    /\ UNCHANGED <<inputVars, scraper, all_apartments, completed_tasks, city_i,
                   source_i, task_errors, apartments, immoVars, netVars,
                   mock_calls, pureVars>>

\* ------------------------------------------------ scrape_immobilienscout24
\* the listings a response's page yields to the filter: listings[:5]
Considered(resp) == SubSeq(resp.listings, 1, Min(Len(resp.listings), ListingLimit))

\* a response from which no apartment can be accepted
YieldsNothing(resp, c) ==
    \/ resp.status # 200
    \/ \A k \in 1..Len(Considered(resp)) :
          LET r == Parsed[resp.listings[k]][c]
          IN r = <<>> \/ r[1].price <= 0 \/ r[1].price > MAX_PRICE
             \/ r[1].rooms < MIN_ROOMS * Milli \/ r[1].area < MIN_AREA

\* the call from main: apartments = [], the URL patterns from the first
ImmoBegin ==
    /\ pc = "task" /\ city_i <= Len(selected_cities) /\ ~UsesMock
    /\ apartments' = <<>>
    /\ url_i' = 1 /\ response' = NoResponse /\ listing_i' = 1
    /\ url_failures' = 0
    /\ requested' = <<>>
    /\ pc' = "url"
    /\ UNCHANGED <<inputVars, scraper, all_apartments, completed_tasks, city_i,
                   source_i, task_errors, df, last_net, mock_calls, pureVars>>

\* self.session.get(base_url, ...): it raises, or a response comes back
Get ==
    /\ pc = "url" /\ url_i <= Len(url_patterns)
    /\ requested' = Append(requested, url_i)
    /\ last_net' = "request"
    /\ \/ /\ pc' = "url_except"
          /\ response' = NoResponse
          /\ url_failures' = url_failures + 1
       \/ \E st \in Statuses, page \in Pages :
             /\ (st # 200 => page \in ErrorBodies)
             /\ response' = [status |-> st, listings |-> page]
             /\ url_failures' = IF YieldsNothing(response', city)
                                THEN url_failures + 1 ELSE url_failures
             /\ pc' = "status"
    /\ UNCHANGED <<inputVars, scraper, all_apartments, completed_tasks, city_i,
                   source_i, task_errors, df, apartments, url_i, listing_i, mock_calls, pureVars>>

\* a faulty variant: the exception is raised again and reaches main's except
CatchUrlErrorReraises ==
    /\ pc = "url_except"
    /\ task_errors' = task_errors + 1
    /\ completed_tasks' = completed_tasks + 1
    /\ NextTask
    /\ pc' = "task"
    /\ UNCHANGED <<inputVars, scraper, all_apartments, df, apartments, immoVars,
                   netVars, mock_calls, pureVars>>

\* except Exception as e (of the URL pattern's try): st.error; continue
CatchUrlError ==
    /\ pc = "url_except"
    /\ url_i' = url_i + 1
    /\ pc' = "url"
    /\ UNCHANGED <<inputVars, scraper, all_apartments, completed_tasks, city_i,
                   source_i, task_errors, df, apartments, response, listing_i,
                   url_failures, netVars, mock_calls, pureVars>>

immoFrame == <<inputVars, scraper, all_apartments, completed_tasks, city_i,
               source_i, task_errors, df, url_i, response, url_failures,
               requested, mock_calls, pureVars>>

\* status 200 and no selector finds a listing: st.warning; continue
Status200NoListings ==
    /\ pc = "status" /\ response.status = 200 /\ response.listings = <<>>
    /\ pc' = "after_pages"
    /\ UNCHANGED <<immoFrame, apartments, listing_i, last_net>>

\* status 200 with listings: on to  for listing in listings[:5]
Status200 ==
    /\ pc = "status" /\ response.status = 200 /\ response.listings # <<>>
    /\ listing_i' = 1
    /\ pc' = "listings"
    /\ UNCHANGED <<immoFrame, apartments, last_net>>

\* status 401 or 403: st.warning; break (out of the page loop)
StatusDenied ==
    /\ pc = "status" /\ response.status \in {401, 403}
    /\ pc' = "after_pages"
    /\ UNCHANGED <<immoFrame, apartments, listing_i, last_net>>

\* a faulty variant: a rate-limited URL pattern is requested again after the wait
Status429Retries ==
    /\ pc = "status" /\ response.status = 429
    /\ last_net' = "sleep"
    /\ pc' = "url"
    /\ UNCHANGED <<immoFrame, apartments, listing_i>>

\* status 429: time.sleep(10), then on to self.random_delay()
Status429 ==
    /\ pc = "status" /\ response.status = 429
    /\ last_net' = "sleep"
    /\ pc' = "delay"
    /\ UNCHANGED <<immoFrame, apartments, listing_i>>

\* a faulty variant: the body of a response with another status is parsed too
StatusOtherParses ==
    /\ pc = "status" /\ response.status \notin {200, 401, 403, 429}
    /\ listing_i' = 1
    /\ pc' = "listings"
    /\ UNCHANGED <<immoFrame, apartments, last_net>>

\* any other status: st.warning, then on to self.random_delay()
StatusOther ==
    /\ pc = "status" /\ response.status \notin {200, 401, 403, 429}
    /\ pc' = "delay"
    /\ UNCHANGED <<immoFrame, apartments, listing_i, last_net>>

\* one round of  for listing in listings[:5]: parse, filter, append
ParseListing ==
    /\ pc = "listings" /\ listing_i <= Len(Considered(response))
    /\ LET r == Parsed[response.listings[listing_i]][city]
       IN apartments' = IF r # <<>> /\ meets_criteria(r[1])
                        THEN Append(apartments, r[1]) ELSE apartments
    /\ listing_i' = listing_i + 1
    /\ UNCHANGED <<immoFrame, pc, last_net>>

\* the listings are through
ListingsDone ==
    /\ pc = "listings" /\ listing_i > Len(Considered(response))
    /\ pc' = "delay"
    /\ UNCHANGED <<immoFrame, apartments, listing_i, last_net>>

\* self.random_delay(): time.sleep(random.uniform(2, 5))
RandomDelay ==
    /\ pc = "delay"
    /\ last_net' = "sleep"
    /\ pc' = "after_pages"
    /\ UNCHANGED <<immoFrame, apartments, listing_i>>

\* if apartments: break; otherwise the next URL pattern
AfterPages ==
    /\ pc = "after_pages"
    /\ IF apartments # <<>>
       THEN pc' = "return" /\ UNCHANGED url_i
       ELSE pc' = "url" /\ url_i' = url_i + 1
    /\ UNCHANGED <<inputVars, scraper, all_apartments, completed_tasks, city_i,
                   source_i, task_errors, df, apartments, response, listing_i,
                   url_failures, netVars, mock_calls, pureVars>>

\* the URL patterns are through
UrlsDone ==
    /\ pc = "url" /\ url_i > Len(url_patterns)
    /\ pc' = "return"
    /\ UNCHANGED <<immoFrame, apartments, listing_i, last_net>>

\* if not apartments: st.error(...); return apartments
ImmoReturn ==
    /\ pc = "return"
    /\ pc' = "extend"
    /\ UNCHANGED <<immoFrame, apartments, listing_i, last_net>>

Next ==
    \/ ClickSearch \/ LoopDone \/ TaskMock \/ TaskRaises \/ TaskExtend
    \/ ShowResults
    \/ ImmoBegin \/ Get \/ CatchUrlError
    \/ Status200NoListings \/ Status200 \/ StatusDenied \/ Status429
    \/ StatusOther
    \/ ParseListing \/ ListingsDone \/ RandomDelay \/ AfterPages \/ UrlsDone
    \/ ImmoReturn

Spec == Init /\ [][Next]_vars

\* a search with the sliders as first drawn: no statement of the search reads
\* max_price, min_rooms or min_area
InitFair ==
    /\ Init
    /\ max_price = MAX_PRICE /\ min_rooms = MIN_ROOMS /\ min_area = MIN_AREA

\* the script is one thread of straight-line code: a step that can be taken is
\* taken (session.get has timeout=15, every time.sleep is finite)
SpecFair == InitFair /\ [][Next]_vars /\ WF_vars(Next)

\* ------------------------------------------- the functions, each on its own
\* the sidebar as the script first draws it (the widgets' defaults)
SidebarDefaults ==
    /\ selected_cities = CITIES /\ selected_sources = <<"ImmoScout24">>
    /\ max_price = MAX_PRICE /\ min_rooms = MIN_ROOMS /\ min_area = MIN_AREA
    /\ test_mode = FALSE

NotCalled == [called |-> FALSE, value |-> <<>>]

\* records handed to meets_criteria: around each threshold and at the
\* generator's ends
CriteriaProbes ==
    {[title |-> <<"Wohnung">>, price |-> p, rooms |-> r, area |-> a,
      city |-> "Muenchen", source |-> "ImmoScout24"] :
        p \in {0, 1, 400000, MAX_PRICE - 1, MAX_PRICE, MAX_PRICE + 1},
        r \in {0, MIN_ROOMS * Milli - 500, MIN_ROOMS * Milli, 5 * Milli},
        a \in {0, MIN_AREA - 1, MIN_AREA, 140}}

InitCriteria ==
    SidebarDefaults /\ MainIdle /\ probe \in CriteriaProbes /\ answer = NotCalled

CallMeetsCriteria ==
    /\ ~answer.called
    /\ answer' = [called |-> TRUE, value |-> meets_criteria(probe)]
    /\ UNCHANGED <<inputVars, mainVars, apartments, immoVars, netVars,
                   mock_calls, probe>>

SpecCriteria == InitCriteria /\ [][CallMeetsCriteria]_vars

\* lists handed to drop_duplicates: accepted records, rows with equal title
\* and price told apart by their city
DedupRows ==
    {[title |-> <<t>>, price |-> p, rooms |-> MIN_ROOMS * Milli,
      area |-> MIN_AREA, city |-> c, source |-> "ImmoScout24"] :
        t \in {"Wohnung A", "Wohnung B"}, p \in {400000, MAX_PRICE},
        c \in Range(CITIES)}

InitDedup ==
    /\ SidebarDefaults /\ MainIdle
    /\ probe \in UNION {[1..n -> DedupRows] : n \in 1..MaxRows}
    /\ answer = NotCalled

CallDropDuplicates ==
    /\ ~answer.called
    /\ answer' = [called |-> TRUE, value |-> drop_duplicates(probe)]
    /\ UNCHANGED <<inputVars, mainVars, apartments, immoVars, netVars,
                   mock_calls, probe>>

SpecDedup == InitDedup /\ [][CallDropDuplicates]_vars

\* texts handed to the field extraction: every short text over each field's
\* alphabet, the sample listings, and fragments joined by blanks
PriceAlphabet == {"1", "0", ".", ",", " ", "euro", "EUR", "Kaufpreis", ":"}
RoomAlphabet == {"1", "0", ",", " ", "Zimmer", "Zi.", "Z", ":"}
AreaAlphabet == {"1", "0", ",", " ", "m2", "qm", "Wohnflaeche", "Quadratmeter", ":"}
ShortTexts ==
    UNION {[1..n -> A] : n \in 1..MaxTextLen,
                         A \in {PriceAlphabet, RoomAlphabet, AreaAlphabet}}

Fragments ==
    {<<"1", ".", "0", "0", "0", " ", "euro">>,
     <<"euro", " ", "2", ".", "0", "0", "0", ",", "5", "0">>,
     <<"3", ".", "0", "0", "0", "EUR">>,
     <<"Kaufpreis", ":", " ", "4", ".", "0", "0", "0">>,
     <<"7", "5", "0", "0", "0", "0", " ", "euro">>,
     <<"5", " ", "Zimmer">>,
     <<"6", ",", "5", " ", "Zi.">>,
     <<"7", "Z">>,
     <<"Zimmer", ":", " ", "8">>,
     <<"3", ".", "5", "Zimmer">>,
     <<"9", "0", " ", "m2">>,
     <<"9", "1", ",", "5", "qm">>,
     <<"Wohnflaeche", ":", "9", "2">>,
     <<"9", "3", " ", "Quadratmeter">>}

RECURSIVE Joined(_)
Joined(fs) ==
    IF Len(fs) = 1 THEN fs[1] ELSE fs[1] \o <<" ">> \o Joined(Tail(fs))

JoinedTexts == {Joined(fs) : fs \in UNION {[1..n -> Fragments] : n \in 1..MaxFragments}}

ExtractProbes ==
    ShortTexts \cup JoinedTexts \cup {l.text : l \in SampleListings \ {ListingBroken}}

InitExtract ==
    SidebarDefaults /\ MainIdle /\ probe \in ExtractProbes /\ answer = NotCalled

CallParse ==
    /\ ~answer.called
    /\ answer' = [called |-> TRUE,
                  value |-> parse_immoscout_listing_enhanced(
                                [title |-> "Wohnung", broken |-> FALSE,
                                 text |-> probe], "Muenchen")]
    /\ UNCHANGED <<inputVars, mainVars, apartments, immoVars, netVars,
                   mock_calls, probe>>

SpecExtract == InitExtract /\ [][CallParse]_vars

\* ================================================================== claims

\* what meets_criteria has to answer for the record handed to it
C1_Value ==
    answer.called =>
        (answer.value <=> (/\ probe.price <= 750000
                           /\ probe.rooms >= 3 * Milli
                           /\ probe.area >= 80
                           /\ probe.price > 0))

\* C1: meets_criteria is a pure boolean predicate: it returns true exactly
\* when price <= 750000 and rooms >= 3 and area >= 80 and price > 0, and the
\* call changes neither the record nor any scraper state.
C1_MeetsCriteriaPure ==
    /\ []C1_Value
    /\ [][/\ probe' = probe
          /\ UNCHANGED <<mainVars, apartments, immoVars, netVars, mock_calls>>]_vars

\* a record on every threshold at once has been accepted
C1_Witness ==
    /\ answer.called /\ answer.value = TRUE
    /\ probe.price = MAX_PRICE /\ probe.rooms = MIN_ROOMS * Milli
    /\ probe.area = MIN_AREA

\* C3: after deduplication no two remaining records have both the same title
\* and the same price; a record is removed only if an earlier record of the
\* list has the same title and price (the first occurrence is kept); all the
\* others are kept, in their original order.
C3_Deduplicated ==
    answer.called =>
        LET out == answer.value
            Kept == {i \in 1..Len(probe) :
                        \A j \in 1..(i - 1) :
                            ~(probe[j].title = probe[i].title
                              /\ probe[j].price = probe[i].price)}
            Nth(k) == CHOOSE i \in Kept : Cardinality({j \in Kept : j <= i}) = k
        IN /\ \A i, j \in 1..Len(out) :
                 i < j => ~(out[i].title = out[j].title /\ out[i].price = out[j].price)
           /\ Len(out) = Cardinality(Kept)
           /\ \A k \in 1..Len(out) : out[k] = probe[Nth(k)]

\* the third row repeats the first row's title and price from another city,
\* the second row differs: the first two rows remain
C3_Witness ==
    /\ answer.called /\ Len(probe) = 3
    /\ SameKey(probe[1], probe[3]) /\ probe[1] # probe[3]
    /\ ~SameKey(probe[1], probe[2])
    /\ answer.value = <<probe[1], probe[2]>>

\* the first pattern of a field's list that matches text and converts, or 0
FirstHit(field, text) ==
    LET hits == {i \in 1..Len(PatternsOf(field)) :
                    /\ re_search(PatternsOf(field)[i], text) # <<>>
                    /\ Converts(field, re_search(PatternsOf(field)[i], text))}
    IN IF hits = {} THEN 0 ELSE CHOOSE i \in hits : \A j \in hits : i <= j

\* C4: for each of price, rooms and area the ordered pattern list is tried
\* from first to last and the field takes the value of the first pattern that
\* matches and converts to a number; when no pattern matches, the field is 0.
C4_FirstPatternWins ==
    answer.called =>
        \A f \in Fields :
            answer.value[1][f] =
                IF FirstHit(f, probe) = 0 THEN 0
                ELSE Convert(f, re_search(PatternsOf(f)[FirstHit(f, probe)], probe))

\* the first pattern of a field does not match, a later one does and gives
\* the field its value, and a pattern after that one matches another number
C4_Witness ==
    /\ answer.called
    /\ \E f \in Fields : \E j \in 1..Len(PatternsOf(f)) :
          /\ FirstHit(f, probe) > 1 /\ FirstHit(f, probe) < j
          /\ re_search(PatternsOf(f)[j], probe) # <<>>
          /\ Convert(f, re_search(PatternsOf(f)[j], probe)) # answer.value[1][f]
          /\ answer.value[1][f] > 0

\* C2: at every point of a search every record of all_apartments was accepted
\* by the criteria filter, whichever source produced it: no record with price
\* 0, price above the maximum, rooms below the minimum or area below the
\* minimum is ever in the results.
C2_ResultsMeetCriteria ==
    \A i \in 1..Len(all_apartments) :
        /\ all_apartments[i].price > 0
        /\ all_apartments[i].price <= 750000
        /\ all_apartments[i].rooms >= 3 * Milli
        /\ all_apartments[i].area >= 80

\* the results hold a parsed record and a generated one, and the last page
\* parsed held a listing without a price
C2_Witness ==
    /\ pc = "completed"
    /\ \E i \in 1..Len(all_apartments) : all_apartments[i].source = "ImmoScout24"
    /\ \E i \in 1..Len(all_apartments) : all_apartments[i].source = MOCK_SOURCE
    /\ \E k \in 1..Len(response.listings) : response.listings[k] = ListingNoPrice

\* the listing about to be parsed is one whose parse fails
AtBrokenListing ==
    /\ pc = "listings" /\ listing_i <= Len(Considered(response))
    /\ response.listings[listing_i].broken

\* C5: a failure while parsing one listing neither removes the records
\* already accepted nor stops the remaining listings of the page from being
\* parsed; a failure of one (city, source) task leaves the records
\* accumulated from earlier tasks unchanged and the remaining tasks are still
\* executed.
C5_FailuresIsolated ==
    /\ [][AtBrokenListing =>
            /\ apartments' = apartments
            /\ pc' = "listings" /\ listing_i' = listing_i + 1]_vars
    /\ [][task_errors' > task_errors =>
            /\ all_apartments' = all_apartments
            /\ completed_tasks' = completed_tasks + 1
            /\ pc' = "task"]_vars
    /\ [](pc = "completed" => completed_tasks = total_tasks)

\* the second task failed, the first task's records are still there, and the
\* third task has accepted the listing that follows a broken one
C5_Witness ==
    /\ ~test_mode /\ task_errors = 1 /\ completed_tasks = 2
    /\ all_apartments # <<>>
    /\ \A i \in 1..Len(all_apartments) : all_apartments[i].source = "ImmoScout24"
    /\ pc = "listings" /\ listing_i = 3
    /\ response.listings[1].broken /\ Len(apartments) = 1

\* the script is inside scrape_immobilienscout24
InImmoCall ==
    pc \in {"url", "url_except", "status", "listings", "delay", "after_pages",
            "return"}

\* C6: scrape_immobilienscout24 has no fatal outcome: whatever its requests
\* and listing parses do, it goes on to return a list and no exception of it
\* reaches main; when every URL pattern fails the returned list is empty.
C6_NoFatalOutcome ==
    /\ [][task_errors' > task_errors => UsesMock]_vars
    /\ [](InImmoCall => ENABLED Next)
    /\ []((pc = "return" /\ url_failures = Len(url_patterns)) => apartments = <<>>)

\* all three URL patterns failed, the last by an exception, and the call is
\* about to return the empty list
C6_Witness ==
    /\ pc = "return" /\ url_failures = 3 /\ requested = <<1, 2, 3>>
    /\ response = NoResponse /\ apartments = <<>>

\* this step issues an HTTP request
IsRequest == requested' # requested /\ requested' # <<>>

\* C7 (as claimed): between any two consecutive HTTP requests of a search a
\* sleep takes place, whatever the outcome of the earlier request.
C7_SleepBetweenRequests == [][IsRequest => last_net # "request"]_vars

\* C8 (as claimed): with test mode off, synthetic records are returned for a
\* task only if a live extraction attempt was made for it and failed.
C8_MockOnlyAfterLiveFailure ==
    (/\ pc = "extend" /\ ~test_mode
     /\ \E i \in 1..Len(apartments) : apartments[i].source = MOCK_SOURCE)
        => requested # <<>>

\* C9: in one call of scrape_immobilienscout24 each URL pattern is requested
\* at most once (at most 3 requests, also after a 429 or an exception), in the
\* listed order, and once a pattern has yielded an accepted apartment no
\* later pattern is requested.
C9_NoRetry ==
    [][IsRequest =>
         /\ requested' = Append(requested, Len(requested) + 1)
         /\ Len(requested') <= 3
         /\ apartments = <<>>]_vars

\* the first pattern was rate limited, the second yielded an apartment, and
\* the call returns without the third
C9_Witness ==
    /\ pc = "return" /\ requested = <<1, 2>> /\ apartments # <<>>

\* C10 (as claimed): every listing reported by a search satisfies the
\* thresholds set with the sliders.
C10_ResultsMeetSliders ==
    pc = "shown" =>
        \A i \in 1..Len(df) :
            /\ df[i].price <= max_price
            /\ df[i].rooms >= min_rooms * Milli
            /\ df[i].area >= min_area

\* C11: in scrape_immobilienscout24 a record is added to the result only while
\* a response with status 200 is handled; a response with status 401, 403,
\* 429 or any other status, and a request that raises, adds no record and
\* leaves the records collected so far unchanged.
C11_OnlyStatus200Adds ==
    /\ [][(InImmoCall /\ apartments' # apartments) =>
            /\ pc = "listings" /\ response.status = 200
            /\ response' = response
            /\ \E r \in Range(apartments') : apartments' = Append(apartments, r)]_vars
    /\ [][(InImmoCall /\ (response.status # 200 \/ pc = "url_except")) =>
            apartments' = apartments]_vars
    /\ [][(pc = "url" /\ pc' = "url_except") => apartments' = apartments]_vars

\* the second URL pattern was answered with status 500 and a body holding an
\* acceptable listing, and the call has passed on with no record
C11_Witness ==
    /\ pc = "delay" /\ requested = <<1, 2>>
    /\ response.status = 500 /\ response.listings = <<ListingGood>>
    /\ apartments = <<>>

\* the (city, source) pair at the given position of the nested loops, counted
\* from 0, cities outside and sources inside
PairAt(n) == <<(n \div Len(selected_sources)) + 1, (n % Len(selected_sources)) + 1>>

\* C12: a search with at least one city and one source selected always ends
\* in 'Search completed': the (city, source) tasks run one at a time, cities
\* in the outer order and sources in the inner order, each pair exactly once;
\* completed_tasks grows by exactly one per task whether the task succeeded
\* or raised, never exceeds total_tasks = |cities| * |sources|, and equals
\* total_tasks when the search completes.
C12_SearchCompletes ==
    /\ (pc = "sidebar" /\ selected_cities # <<>> /\ selected_sources # <<>>)
          ~> (pc = "completed")
    /\ [][completed_tasks' # completed_tasks =>
            /\ completed_tasks' = completed_tasks + 1
            /\ <<city_i, source_i>> = PairAt(completed_tasks)
            /\ pc' = "task"]_vars
    /\ [][(task_errors' # task_errors \/ (pc = "extend" /\ pc' # pc)) =>
            completed_tasks' = completed_tasks + 1]_vars
    /\ [](completed_tasks <= total_tasks)
    /\ []((pc \notin {"sidebar", "rejected"} /\ completed_tasks < total_tasks) =>
            /\ <<city_i, source_i>> = PairAt(completed_tasks)
            /\ pc \notin {"completed", "shown", "empty"})
    /\ [](pc \in {"completed", "shown", "empty"} => completed_tasks = total_tasks)

\* a search over two cities and three sources has completed, one of its six
\* tasks raised and another went to the network
C12_Witness ==
    /\ pc = "completed" /\ total_tasks = 6 /\ completed_tasks = 6
    /\ task_errors = 1 /\ last_net # "none"

\* C13: test mode makes no network call: with the test-mode toggle on, for
\* every selection of cities and sources no HTTP request is issued during the
\* search and every record of the results comes from the synthetic generator
\* (source 'Mock Data (for testing)'), one generator call per (city, source)
\* pair.
C13_TestModeOffline ==
    test_mode =>
        /\ requested = <<>> /\ last_net = "none" /\ ~InImmoCall
        /\ \A r \in Range(apartments) \cup Range(all_apartments) \cup Range(df) :
              r.source = MOCK_SOURCE
        /\ mock_calls = completed_tasks + (IF pc = "extend" THEN 1 ELSE 0)
        /\ (pc \in {"completed", "shown", "empty"} => mock_calls = total_tasks)

\* a test-mode search over both cities and all three sources, ImmoScout24
\* among them, shows its results
C13_Witness ==
    /\ test_mode /\ pc = "shown" /\ df # <<>>
    /\ selected_cities = CITIES /\ selected_sources = SOURCES
    /\ mock_calls = 6

\* C14: a search triggered with no city selected or with no source selected is
\* rejected with an error message before any work: no scraper is created, no
\* HTTP request is issued, no synthetic data is generated and no results are
\* shown.
C14_EmptySelectionRejected ==
    (selected_cities = <<>> \/ selected_sources = <<>>) =>
        /\ pc \in {"sidebar", "rejected"}
        /\ scraper = FALSE
        /\ requested = <<>> /\ last_net = "none"
        /\ mock_calls = 0 /\ apartments = <<>>
        /\ all_apartments = <<>> /\ df = <<>>
        /\ completed_tasks = 0 /\ task_errors = 0

\* the button was pressed with cities selected and no source, and the script
\* has stopped at the error message
C14_Witness ==
    /\ pc = "rejected" /\ selected_cities = CITIES /\ selected_sources = <<>>
    /\ ~test_mode

====
